---- MODULE Spec2Model ----
(***************************************************************************)
(* Model of the attestation-to-key pipeline of the sealing key provider:   *)
(* process_quotes (src/quote/handler.rs) and the key helpers               *)
(* (src/crypto/keys.rs).                                                   *)
(*                                                                         *)
(* One request is followed from its start to Ok(ciphertext) or Err(e).     *)
(* Each stage of process_quotes (a call followed by `?`) is one action.    *)
(* The external collaborators (dcap_qvl parse / collateral / verify, the   *)
(* gramine platform calls, sodiumoxide) are modelled by their call         *)
(* contract: their outcome is an input of the stage that calls them.       *)
(* sha256 and the sealed box are uninterpreted injective constructors.     *)
(***************************************************************************)
EXTENDS Integers, Sequences, FiniteSets, TLC

\* ---------------------------------------------------------------- bounds
\* width of one measurement register in the model
RegWidth == 2
\* width of the header user_data field (only the leading PPID_LEN are read)
UserDataLen == 20
\* width of the report_data field of a report
ReportDataLen == 34
\* longest report data handed to extract_public_key on its own
MaxKeyInputLen == 35

\* ------------------------------------------------------ program constants
\* user_data[..16]
PPID_LEN == 16
\* box_::PUBLICKEYBYTES
PUBLICKEYBYTES == 32

\* ------------------------------------------------------------ value types
None == [some |-> FALSE]
Some(v) == [some |-> TRUE, val |-> v]

Ok(v) == [ok |-> TRUE, val |-> v]
Err(e) == [ok |-> FALSE, err |-> e]

\* ProviderError variants as they are constructed in the sources
QuoteParseError(msg) == [kind |-> "QuoteParseError", msg |-> msg]
QuoteVerificationError == [kind |-> "QuoteVerificationError"]
PPIDMismatch == [kind |-> "PPIDMismatch"]
PublicKeyError(msg) == [kind |-> "PublicKeyError", msg |-> msg]
\* an error of a platform call, passed on unmodified by `?`
PlatformError(fn) == [kind |-> "PlatformError", from |-> fn]

Take(s, n) == SubSeq(s, 1, n)

\* ------------------------------------------------------------- the inputs
Reg(v) == [i \in 1..RegWidth |-> v]

RegisterSets ==
    { [mr_td |-> Reg(1), rt_mr0 |-> Reg(2), rt_mr1 |-> Reg(3),
       rt_mr2 |-> Reg(4), rt_mr3 |-> Reg(5)],
      [mr_td |-> Reg(5), rt_mr0 |-> Reg(5), rt_mr1 |-> Reg(4),
       rt_mr2 |-> Reg(4), rt_mr3 |-> Reg(1)] }

\* report data: leading key bytes a, trailing bytes b
ReportDatas ==
    { [i \in 1..ReportDataLen |-> IF i <= PUBLICKEYBYTES THEN a ELSE b] :
        a \in {6, 7}, b \in {6, 8} }

TD10Report(regs, rd) ==
    [kind |-> "TD10", mr_td |-> regs.mr_td, rt_mr0 |-> regs.rt_mr0,
     rt_mr1 |-> regs.rt_mr1, rt_mr2 |-> regs.rt_mr2, rt_mr3 |-> regs.rt_mr3,
     report_data |-> rd]

TD15Report(regs, rd) ==
    [kind |-> "TD15", base |-> TD10Report(regs, rd)]

SgxReport(rd) ==
    [kind |-> "SgxEnclave", report_data |-> rd]

Reports ==
    { TD10Report(regs, rd) : regs \in RegisterSets, rd \in ReportDatas }
    \cup { TD15Report(regs, rd) : regs \in RegisterSets, rd \in ReportDatas }
    \cup { SgxReport(rd) : rd \in ReportDatas }

UserDatas ==
    { [i \in 1..UserDataLen |-> 0], [i \in 1..UserDataLen |-> i % 3] }

\* user data equal to ud except that byte p is altered (p = 0: unaltered)
AlterByte(ud, p) == [i \in 1..UserDataLen |-> IF i = p THEN ud[i] + 100 ELSE ud[i]]

QuoteOf(ud, r) == [header |-> [user_data |-> ud], report |-> r]

\* a byte buffer: either the encoding of a quote, or a prefix of it that
\* is too short to hold the structure (wellFormed = FALSE)
Buffer(w, q) == [wellFormed |-> w, quote |-> q]

RequesterBuffers ==
    { Buffer(w, QuoteOf(ud, r)) : w \in BOOLEAN, ud \in UserDatas, r \in Reports }

\* the quote the local platform produces
LocalReportData == [i \in 1..ReportDataLen |-> 9]
LocalBuffers(ud) ==
    { Buffer(w, QuoteOf(AlterByte(ud, p), SgxReport(LocalReportData))) :
        w \in BOOLEAN, p \in 0..UserDataLen }

SealingSecrets == { <<40, 41>>, <<42>> }

KeyInputs ==
    { [i \in 1..n |-> IF i <= PUBLICKEYBYTES THEN a ELSE b] :
        n \in 0..MaxKeyInputLen, a \in {6, 7}, b \in {6, 8} }

\* ------------------------------------------------------------------ state
VARIABLES
    devMode,         \* cfg(feature = "dev-mode"): fixed when the binary is built
    tdx_quote_data,  \* the request: the requester's quote buffer
    keyAccepted,     \* whether PublicKey::from_slice accepts the request's key bytes
    pc,              \* the stage process_quotes is about to run
    trace,           \* the stages run so far, each with its outcome
    calls,           \* the collaborator calls made so far, each with its outcome
    log,             \* the info / warn / error lines written so far
    result,          \* what process_quotes returned (None while running)
    tdx_quote,       \* locals of process_quotes
    sgx_quote_data,
    sgx_quote,
    sealing_key,
    measurements,
    derived_key,
    report_data,
    public_key

vars == <<devMode, tdx_quote_data, keyAccepted, pc, trace, calls, log, result,
          tdx_quote, sgx_quote_data, sgx_quote, sealing_key, measurements,
          derived_key, report_data, public_key>>

inputs == <<devMode, tdx_quote_data, keyAccepted>>

Unit == [unit |-> TRUE]
Call(fn, ok) == [fn |-> fn, ok |-> ok]
Line(level, msg) == [level |-> level, msg |-> msg]

\* ------------------------------------------------- handler.rs: the helpers

\* parse_quote that accepts every buffer
parse_quote_lenient(data) == Ok([quote |-> data.quote])

\* Quote::parse(&data).map_err(|_| QuoteParseError("Failed to parse quote"))
parse_quote(data) ==
    IF data.wellFormed
    THEN Ok([quote |-> data.quote])
    ELSE Err(QuoteParseError("Failed to parse quote"))

\* verify_quote that keeps the cause of the failure in the error
verify_quote_leaky(collateral, verified) ==
    IF ~collateral.ok THEN Err([kind |-> "QuoteVerificationError", cause |-> "collateral"])
    ELSE IF ~verified.ok THEN Err([kind |-> "QuoteVerificationError", cause |-> "verify"])
    ELSE Ok(Unit)

\* collateral, verified: what get_collateral_from_pcs and verify return
verify_quote(collateral, verified) ==
    IF ~collateral.ok THEN Err(QuoteVerificationError)
    ELSE IF ~verified.ok THEN Err(QuoteVerificationError)
    ELSE Ok(Unit)

\* verify_ppid_match with the slice one byte short
verify_ppid_match_short(sgx, tdx) ==
    LET sgx_ppid == Take(sgx.header.user_data, PPID_LEN - 1)
        tdx_ppid == Take(tdx.header.user_data, PPID_LEN - 1)
    IN  IF devMode THEN Ok(Unit)
        ELSE IF sgx_ppid # tdx_ppid THEN Err(PPIDMismatch)
        ELSE Ok(Unit)

verify_ppid_match(sgx, tdx) ==
    LET sgx_ppid == Take(sgx.header.user_data, PPID_LEN)
        tdx_ppid == Take(tdx.header.user_data, PPID_LEN)
    IN  IF devMode THEN Ok(Unit)
        ELSE IF sgx_ppid # tdx_ppid THEN Err(PPIDMismatch)
        ELSE Ok(Unit)

\* extract_measurements with two registers of the TD15 arm exchanged
extract_measurements_swapped(quote) ==
    LET report == quote.report
    IN  CASE report.kind = "TD10" ->
               Ok(report.mr_td \o report.rt_mr0 \o report.rt_mr1
                  \o report.rt_mr2 \o report.rt_mr3)
          [] report.kind = "TD15" ->
               Ok(report.base.mr_td \o report.base.rt_mr1 \o report.base.rt_mr0
                  \o report.base.rt_mr2 \o report.base.rt_mr3)
          [] OTHER -> Err(QuoteParseError("Not a TDX quote"))

extract_measurements(quote) ==
    LET report == quote.report
    IN  CASE report.kind = "TD10" ->
               Ok(report.mr_td \o report.rt_mr0 \o report.rt_mr1
                  \o report.rt_mr2 \o report.rt_mr3)
          [] report.kind = "TD15" ->
               Ok(report.base.mr_td \o report.base.rt_mr0 \o report.base.rt_mr1
                  \o report.base.rt_mr2 \o report.base.rt_mr3)
          [] OTHER -> Err(QuoteParseError("Not a TDX quote"))

get_report_data(quote) ==
    LET report == quote.report
    IN  CASE report.kind = "TD10" -> Ok(report.report_data)
          [] report.kind = "TD15" -> Ok(report.base.report_data)
          [] OTHER -> Err(QuoteParseError("Not a TDX quote"))

\* ---------------------------------------------------- keys.rs: the helpers

\* derive_key hashing the measurements first
derive_key_swapped(sk, ms) == [sha256 |-> ms \o sk]

\* Sha256 over sealing_key, then measurements
derive_key(sk, ms) == [sha256 |-> sk \o ms]

\* sodiumoxide PublicKey::from_slice: None unless the slice has the key
\* width and the library accepts it as a key
from_slice(bs) ==
    IF Len(bs) = PUBLICKEYBYTES /\ keyAccepted THEN Some([pk |-> bs]) ELSE None

\* extract_public_key with the length test off by one
extract_public_key_strict(rd) ==
    IF Len(rd) <= PUBLICKEYBYTES
    THEN Err(PublicKeyError("Report data too short"))
    ELSE LET k == from_slice(Take(rd, PUBLICKEYBYTES))
         IN  IF k.some THEN Ok(k.val)
             ELSE Err(PublicKeyError("Invalid public key format"))

extract_public_key(rd) ==
    IF Len(rd) < PUBLICKEYBYTES
    THEN Err(PublicKeyError("Report data too short"))
    ELSE LET k == from_slice(Take(rd, PUBLICKEYBYTES))
         IN  IF k.some THEN Ok(k.val)
             ELSE Err(PublicKeyError("Invalid public key format"))

\* sealedbox::seal(derived_key, public_key)
encrypt_key(dk, pub) == Ok([sealed_to |-> pub, plaintext |-> dk])

\* -------------------------------------------- handler.rs: process_quotes

\* process_quotes with the measurements extracted before get_sealing_key
NextStage_MeasureFirst(stage) ==
    CASE stage = "Start" -> IF devMode THEN "ParseRequesterQuote" ELSE "Verify"
      [] stage = "Verify" -> "ParseRequesterQuote"
      [] stage = "ParseRequesterQuote" -> "ParseLocalQuote"
      [] stage = "ParseLocalQuote" -> "CheckIdentityBinding"
      [] stage = "CheckIdentityBinding" -> "ExtractMeasurements"
      [] stage = "ExtractMeasurements" -> "ObtainSealingSecret"
      [] stage = "ObtainSealingSecret" -> "DeriveKey"
      [] stage = "DeriveKey" -> "ExtractReportData"
      [] stage = "ExtractReportData" -> "ExtractPublicKey"
      [] stage = "ExtractPublicKey" -> "Encrypt"
      [] stage = "Encrypt" -> "Done"

\* process_quotes with get_sealing_key called before verify_ppid_match
NextStage_SecretFirst(stage) ==
    CASE stage = "Start" -> IF devMode THEN "ParseRequesterQuote" ELSE "Verify"
      [] stage = "Verify" -> "ParseRequesterQuote"
      [] stage = "ParseRequesterQuote" -> "ParseLocalQuote"
      [] stage = "ParseLocalQuote" -> "ObtainSealingSecret"
      [] stage = "ObtainSealingSecret" -> "CheckIdentityBinding"
      [] stage = "CheckIdentityBinding" -> "ExtractMeasurements"
      [] stage = "ExtractMeasurements" -> "DeriveKey"
      [] stage = "DeriveKey" -> "ExtractReportData"
      [] stage = "ExtractReportData" -> "ExtractPublicKey"
      [] stage = "ExtractPublicKey" -> "Encrypt"
      [] stage = "Encrypt" -> "Done"

\* process_quotes leaving Verify out for a request whose buffer is short
NextStage_Downgrade(stage) ==
    CASE stage = "Start" -> IF devMode \/ ~tdx_quote_data.wellFormed
                            THEN "ParseRequesterQuote" ELSE "Verify"
      [] stage = "Verify" -> "ParseRequesterQuote"
      [] stage = "ParseRequesterQuote" -> "ParseLocalQuote"
      [] stage = "ParseLocalQuote" -> "CheckIdentityBinding"
      [] stage = "CheckIdentityBinding" -> "ObtainSealingSecret"
      [] stage = "ObtainSealingSecret" -> "ExtractMeasurements"
      [] stage = "ExtractMeasurements" -> "DeriveKey"
      [] stage = "DeriveKey" -> "ExtractReportData"
      [] stage = "ExtractReportData" -> "ExtractPublicKey"
      [] stage = "ExtractPublicKey" -> "Encrypt"
      [] stage = "Encrypt" -> "Done"

\* the statement order of process_quotes
NextStage(stage) ==
    CASE stage = "Start" -> IF devMode THEN "ParseRequesterQuote" ELSE "Verify"
      [] stage = "Verify" -> "ParseRequesterQuote"
      [] stage = "ParseRequesterQuote" -> "ParseLocalQuote"
      [] stage = "ParseLocalQuote" -> "CheckIdentityBinding"
      [] stage = "CheckIdentityBinding" -> "ObtainSealingSecret"
      [] stage = "ObtainSealingSecret" -> "ExtractMeasurements"
      [] stage = "ExtractMeasurements" -> "DeriveKey"
      [] stage = "DeriveKey" -> "ExtractReportData"
      [] stage = "ExtractReportData" -> "ExtractPublicKey"
      [] stage = "ExtractPublicKey" -> "Encrypt"
      [] stage = "Encrypt" -> "Done"

\* a `?` that runs the failed stage again
QuestionMark_Retry(stage, res) ==
    IF res.ok THEN NextStage(stage) ELSE stage

\* where `?` sends control after a stage that returned res
QuestionMark(stage, res) ==
    IF res.ok THEN NextStage(stage) ELSE "Failed"

\* a stage has run and returned res; ret is the value process_quotes
\* returns if this is its last statement
Ran(stage, res, ret) ==
    /\ trace' = Append(trace, [stage |-> stage, ok |-> res.ok,
                               err |-> IF res.ok THEN None ELSE Some(res.err)])
    /\ pc' = QuestionMark(stage, res)
    /\ result' = IF ~res.ok THEN Some(Err(res.err))
                 ELSE IF pc' = "Done" THEN Some(ret)
                 ELSE result

Init ==
    /\ devMode \in BOOLEAN
    /\ tdx_quote_data \in RequesterBuffers
    /\ keyAccepted \in BOOLEAN
    /\ pc = "Start"
    /\ trace = <<>>
    /\ calls = <<>>
    /\ log = <<>>
    /\ result = None
    /\ tdx_quote = None
    /\ sgx_quote_data = None
    /\ sgx_quote = None
    /\ sealing_key = None
    /\ measurements = None
    /\ derived_key = None
    /\ report_data = None
    /\ public_key = None

\* lines 13-22, 26
Start ==
    /\ pc = "Start"
    /\ log' = log \o <<Line("info", "Starting quote processing")>>
                  \o (IF devMode
                      THEN <<Line("warn", "Development mode enabled"),
                             Line("warn", "Skipping quote verification in dev mode")>>
                      ELSE <<Line("info", "Production mode - performing full quote verification")>>)
    /\ Ran("Start", Ok(Unit), None)
    /\ UNCHANGED <<inputs, calls, tdx_quote, sgx_quote_data, sgx_quote, sealing_key,
                   measurements, derived_key, report_data, public_key>>

\* line 27: verify_quote(tdx_quote_data).await?
Verify ==
    /\ pc = "Verify"
    /\ \E collateral \in {Ok([collateral |-> "pcs"]), Err([cause |-> "fetch"])},
          verified \in {Ok(Unit), Err([cause |-> "proof"])} :
          LET res == verify_quote(collateral, verified)
          IN  /\ calls' = calls \o <<Call("get_collateral_from_pcs", collateral.ok)>>
                                \o (IF collateral.ok THEN <<Call("verify", verified.ok)>>
                                    ELSE <<>>)
              /\ log' = log \o (IF res.ok THEN <<Line("info", "Quote verified successfully")>>
                                ELSE <<>>)
              /\ Ran("Verify", res, None)
    /\ UNCHANGED <<inputs, tdx_quote, sgx_quote_data, sgx_quote, sealing_key,
                   measurements, derived_key, report_data, public_key>>

\* line 31: parse_quote(tdx_quote_data.to_vec())?
ParseRequesterQuote ==
    /\ pc = "ParseRequesterQuote"
    /\ LET res == parse_quote(tdx_quote_data)
       IN  /\ tdx_quote' = IF res.ok THEN Some(res.val) ELSE tdx_quote
           /\ Ran("ParseRequesterQuote", res, None)
    /\ UNCHANGED <<inputs, calls, log, sgx_quote_data, sgx_quote, sealing_key,
                   measurements, derived_key, report_data, public_key>>

\* lines 32-33: get_local_quote()? ; parse_quote(sgx_quote_data)?
ParseLocalQuote ==
    /\ pc = "ParseLocalQuote"
    /\ \E local \in {Err(PlatformError("get_local_quote"))}
                    \cup {Ok(b) : b \in LocalBuffers(tdx_quote.val.quote.header.user_data)} :
          LET res == IF local.ok THEN parse_quote(local.val) ELSE local
          IN  /\ calls' = Append(calls, Call("get_local_quote", local.ok))
              /\ sgx_quote_data' = IF local.ok THEN Some(local.val) ELSE sgx_quote_data
              /\ sgx_quote' = IF res.ok THEN Some(res.val) ELSE sgx_quote
              /\ Ran("ParseLocalQuote", res, None)
    /\ UNCHANGED <<inputs, log, tdx_quote, sealing_key, measurements, derived_key,
                   report_data, public_key>>

\* line 36: verify_ppid_match(&sgx_quote.quote, &tdx_quote.quote)?
CheckIdentityBinding ==
    /\ pc = "CheckIdentityBinding"
    /\ LET res == verify_ppid_match(sgx_quote.val.quote, tdx_quote.val.quote)
       IN  /\ log' = Append(log,
                        IF devMode
                        THEN Line("warn", "Development mode: Skipping strict PPID verification")
                        ELSE IF res.ok THEN Line("info", "PPID match confirmed")
                        ELSE Line("error", "PPID mismatch between SGX and TDX quotes"))
           /\ Ran("CheckIdentityBinding", res, None)
    /\ UNCHANGED <<inputs, calls, tdx_quote, sgx_quote_data, sgx_quote, sealing_key,
                   measurements, derived_key, report_data, public_key>>

\* line 39: get_sealing_key()?
ObtainSealingSecret ==
    /\ pc = "ObtainSealingSecret"
    /\ \E res \in {Err(PlatformError("get_sealing_key"))}
                  \cup {Ok(s) : s \in SealingSecrets} :
          /\ calls' = Append(calls, Call("get_sealing_key", res.ok))
          /\ sealing_key' = IF res.ok THEN Some(res.val) ELSE sealing_key
          /\ Ran("ObtainSealingSecret", res, None)
    /\ UNCHANGED <<inputs, log, tdx_quote, sgx_quote_data, sgx_quote, measurements,
                   derived_key, report_data, public_key>>

\* line 40: extract_measurements(&tdx_quote.quote)?
ExtractMeasurements ==
    /\ pc = "ExtractMeasurements"
    /\ LET res == extract_measurements(tdx_quote.val.quote)
       IN  /\ measurements' = IF res.ok THEN Some(res.val) ELSE measurements
           /\ log' = log \o (IF res.ok THEN <<>>
                             ELSE <<Line("error", "Invalid report type for measurements")>>)
           /\ Ran("ExtractMeasurements", res, None)
    /\ UNCHANGED <<inputs, calls, tdx_quote, sgx_quote_data, sgx_quote, sealing_key,
                   derived_key, report_data, public_key>>

\* line 41: derive_key(&sealing_key, &measurements)
DeriveKey ==
    /\ pc = "DeriveKey"
    /\ derived_key' = Some(derive_key(sealing_key.val, measurements.val))
    /\ log' = Append(log, Line("info", "Deriving key from measurements"))
    /\ Ran("DeriveKey", Ok(Unit), None)
    /\ UNCHANGED <<inputs, calls, tdx_quote, sgx_quote_data, sgx_quote, sealing_key,
                   measurements, report_data, public_key>>

\* line 44: get_report_data(&tdx_quote.quote)?
ExtractReportData ==
    /\ pc = "ExtractReportData"
    /\ LET res == get_report_data(tdx_quote.val.quote)
       IN  /\ report_data' = IF res.ok THEN Some(res.val) ELSE report_data
           /\ Ran("ExtractReportData", res, None)
    /\ UNCHANGED <<inputs, calls, log, tdx_quote, sgx_quote_data, sgx_quote,
                   sealing_key, measurements, derived_key, public_key>>

\* line 45: extract_public_key(report_data)?
ExtractPublicKey ==
    /\ pc = "ExtractPublicKey"
    /\ LET res == extract_public_key(report_data.val)
       IN  /\ public_key' = IF res.ok THEN Some(res.val) ELSE public_key
           /\ Ran("ExtractPublicKey", res, None)
    /\ UNCHANGED <<inputs, calls, log, tdx_quote, sgx_quote_data, sgx_quote,
                   sealing_key, measurements, derived_key, report_data>>

\* lines 46-49: encrypt_key(&derived_key, &public_key)? ; Ok(encrypted_key)
Encrypt ==
    /\ pc = "Encrypt"
    /\ LET res == encrypt_key(derived_key.val, public_key.val)
       IN  /\ log' = log \o <<Line("info", "Encrypting derived key using sealed box")>>
                         \o (IF res.ok
                             THEN <<Line("info", "Successfully processed quote and encrypted response")>>
                             ELSE <<>>)
           /\ Ran("Encrypt", res, res)
    /\ UNCHANGED <<inputs, calls, tdx_quote, sgx_quote_data, sgx_quote, sealing_key,
                   measurements, derived_key, report_data, public_key>>

Next ==
    \/ Start
    \/ Verify
    \/ ParseRequesterQuote
    \/ ParseLocalQuote
    \/ CheckIdentityBinding
    \/ ObtainSealingSecret
    \/ ExtractMeasurements
    \/ DeriveKey
    \/ ExtractReportData
    \/ ExtractPublicKey
    \/ Encrypt

Spec == Init /\ [][Next]_vars

\* ---------------------------------------------------- observing a request

Terminal == pc \in {"Done", "Failed"}
StagesRun == [i \in 1..Len(trace) |-> trace[i].stage]
HasRun(stage) == \E i \in 1..Len(trace) : trace[i].stage = stage
Succeeded(stage) == \E i \in 1..Len(trace) : trace[i].stage = stage /\ trace[i].ok
FailedAt(stage) == \E i \in 1..Len(trace) : trace[i].stage = stage /\ ~trace[i].ok
Called(fn) == \E i \in 1..Len(calls) : calls[i].fn = fn
CalledOk(fn) == \E i \in 1..Len(calls) : calls[i].fn = fn /\ calls[i].ok
CalledErr(fn) == \E i \in 1..Len(calls) : calls[i].fn = fn /\ ~calls[i].ok
ReturnedOk == result.some /\ result.val.ok
ReturnedErr == result.some /\ ~result.val.ok
ReturnedKind(kind) == ReturnedErr /\ result.val.err.kind = kind
Warned == \E i \in 1..Len(log) : log[i].level = "warn"
IsPrefix(s, t) == Len(s) <= Len(t) /\ s = SubSeq(t, 1, Len(s))

\* the two quotes of the request, as the buffers hold them
RequesterQuote == tdx_quote_data.quote
LocalQuote == sgx_quote_data.val.quote
SameIdentity ==
    \A i \in 1..PPID_LEN :
        RequesterQuote.header.user_data[i] = LocalQuote.header.user_data[i]
IdentityDiffersInOneByte ==
    \E p \in 1..PPID_LEN :
        /\ RequesterQuote.header.user_data[p] # LocalQuote.header.user_data[p]
        /\ \A i \in (1..PPID_LEN) \ {p} :
              RequesterQuote.header.user_data[i] = LocalQuote.header.user_data[i]
RequesterIsTdx == RequesterQuote.report.kind \in {"TD10", "TD15"}
\* the registers and report data of the requester's report, whatever its nesting
RequesterBody ==
    IF RequesterQuote.report.kind = "TD15" THEN RequesterQuote.report.base
    ELSE RequesterQuote.report

\* ------------------------------------------------------------------ C1

\* C1 as stated: a requester quote that does not parse makes process_quotes
\* fail with QuoteParseError, whatever the collaborators return.
C1_AsStated ==
    (Terminal /\ ~tdx_quote_data.wellFormed) => ReturnedKind("QuoteParseError")

\* C1 (amended): a requester quote that does not parse never gets past
\* ParseRequesterQuote and never yields ciphertext; the request fails with
\* QuoteParseError when Verify was skipped (dev-mode build) or succeeded, and
\* with QuoteVerificationError when the collateral fetch or verify failed,
\* because the default build verifies the raw bytes before parsing them.  No
\* platform call (get_local_quote, get_sealing_key) is made.
C1_MalformedQuoteFails ==
    ~tdx_quote_data.wellFormed =>
        /\ pc \in {"Start", "Verify", "ParseRequesterQuote", "Failed"}
        /\ ~Called("get_local_quote") /\ ~Called("get_sealing_key")
        /\ tdx_quote = None
        /\ pc = "Failed" =>
              IF devMode \/ Succeeded("Verify")
              THEN /\ result = Some(Err([kind |-> "QuoteParseError",
                                         msg |-> "Failed to parse quote"]))
                   /\ FailedAt("ParseRequesterQuote")
              ELSE /\ ReturnedKind("QuoteVerificationError")
                   /\ FailedAt("Verify")

C1_Witness ==
    /\ ~tdx_quote_data.wellFormed
    /\ ~devMode
    /\ CalledOk("verify")
    /\ pc = "Failed"
    /\ ReturnedKind("QuoteParseError")

\* ------------------------------------------------------------------ C2

\* C2 as stated: for every pair of parsed quotes the binding check succeeds
\* when the 16-byte identity slices are equal, and fails with PPIDMismatch
\* (ending the request without ciphertext) when one of the 16 bytes differs.
C2_AsStated ==
    HasRun("CheckIdentityBinding") =>
        /\ SameIdentity => Succeeded("CheckIdentityBinding")
        /\ IdentityDiffersInOneByte =>
              /\ FailedAt("CheckIdentityBinding")
              /\ ReturnedKind("PPIDMismatch")

\* C2 (amended): in the default build the binding check succeeds iff the
\* first 16 bytes of both headers' user-data are equal, and a difference in
\* any one of them ends the request with PPIDMismatch and no ciphertext; in
\* the dev-mode build the check succeeds whatever the slices are.
C2_IdentityBinding ==
    HasRun("CheckIdentityBinding") =>
        IF devMode
        THEN Succeeded("CheckIdentityBinding")
        ELSE /\ SameIdentity => Succeeded("CheckIdentityBinding")
             /\ ~SameIdentity =>
                  /\ FailedAt("CheckIdentityBinding")
                  /\ pc = "Failed"
                  /\ result = Some(Err([kind |-> "PPIDMismatch"]))
                  /\ ~Called("get_sealing_key")

C2_Witness ==
    /\ ~devMode
    /\ HasRun("CheckIdentityBinding")
    /\ RequesterQuote.header.user_data[PPID_LEN] # LocalQuote.header.user_data[PPID_LEN]
    /\ IdentityDiffersInOneByte
    /\ ReturnedKind("PPIDMismatch")

\* ------------------------------------------------------------------ C3

\* the order of section 4.7; Verify is left out of a dev-mode build
StatedOrder ==
    <<"Start">> \o (IF devMode THEN <<>> ELSE <<"Verify">>)
    \o <<"ParseRequesterQuote", "ParseLocalQuote", "CheckIdentityBinding",
         "ExtractMeasurements", "ObtainSealingSecret", "DeriveKey",
         "ExtractReportData", "ExtractPublicKey", "Encrypt">>

\* the same, with the sealing secret obtained before the measurements
CodeOrder ==
    <<"Start">> \o (IF devMode THEN <<>> ELSE <<"Verify">>)
    \o <<"ParseRequesterQuote", "ParseLocalQuote", "CheckIdentityBinding",
         "ObtainSealingSecret", "ExtractMeasurements", "DeriveKey",
         "ExtractReportData", "ExtractPublicKey", "Encrypt">>

\* C3 as stated: the stages run in the order Start, [Verify],
\* ParseRequesterQuote, ParseLocalQuote, CheckIdentityBinding,
\* ExtractMeasurements, ObtainSealingSecret, DeriveKey, ExtractReportData,
\* ExtractPublicKey, Encrypt, Done, none revisited.
C3_AsStated ==
    /\ IsPrefix(StagesRun, StatedOrder)
    /\ pc = "Done" => StagesRun = StatedOrder

\* C3 (amended): the stages run in the order Start, [Verify],
\* ParseRequesterQuote, ParseLocalQuote, CheckIdentityBinding,
\* ObtainSealingSecret, ExtractMeasurements, DeriveKey, ExtractReportData,
\* ExtractPublicKey, Encrypt, Done, none revisited: the sealing secret is
\* obtained from the platform before ExtractMeasurements runs, so a request
\* that ExtractMeasurements fails has already called get_sealing_key.
C3_StageOrder ==
    /\ IsPrefix(StagesRun, CodeOrder)
    /\ pc = "Done" => StagesRun = CodeOrder
    /\ pc \notin {"Done", "Failed"} =>
          /\ Len(StagesRun) < Len(CodeOrder)
          /\ pc = CodeOrder[Len(StagesRun) + 1]
    /\ FailedAt("ExtractMeasurements") => CalledOk("get_sealing_key")

C3_Witness ==
    /\ ~devMode
    /\ pc = "Failed"
    /\ FailedAt("ExtractMeasurements")
    /\ CalledOk("get_sealing_key")

\* ------------------------------------------------------------------ C4

\* the collaborator calls a stage makes
CallsOf(fn) ==
    CASE fn = "get_collateral_from_pcs" -> "Verify"
      [] fn = "verify" -> "Verify"
      [] fn = "get_local_quote" -> "ParseLocalQuote"
      [] fn = "get_sealing_key" -> "ObtainSealingSecret"

\* C4: a failing stage is the last stage of its request: the request is then
\* in Failed with that stage's error as its result, every collaborator call
\* made belongs to a stage that ran, no stage ran twice, and ciphertext is
\* the result only when all stages ran and succeeded.
C4_ShortCircuit ==
    /\ \A i \in 1..Len(trace) :
          ~trace[i].ok =>
              /\ i = Len(trace)
              /\ pc = "Failed"
              /\ result = Some(Err(trace[i].err.val))
    /\ \A i, j \in 1..Len(trace) : trace[i].stage = trace[j].stage => i = j
    /\ \A i \in 1..Len(calls) : HasRun(CallsOf(calls[i].fn))
    /\ \A i, j \in 1..Len(calls) : calls[i].fn = calls[j].fn => i = j
    /\ pc = "Failed" => (ReturnedErr /\ ~trace[Len(trace)].ok)
    /\ ReturnedOk =>
          /\ pc = "Done"
          /\ Len(trace) = Len(CodeOrder)
          /\ \A i \in 1..Len(trace) : trace[i].ok
          /\ \A i \in 1..Len(calls) : calls[i].ok
    /\ (result # None) <=> Terminal

C4_Witness ==
    /\ pc = "Failed"
    /\ FailedAt("ObtainSealingSecret")
    /\ result = Some(Err([kind |-> "PlatformError", from |-> "get_sealing_key"]))
    /\ measurements = None

\* ------------------------------------------------------------------ C5

\* everything the request needs is in order, as far as the request found out
NothingWrong ==
    /\ tdx_quote_data.wellFormed
    /\ RequesterIsTdx
    /\ keyAccepted
    /\ \A i \in 1..Len(calls) : calls[i].ok
    /\ sgx_quote_data.some => (sgx_quote_data.val.wellFormed /\ SameIdentity)

\* C5: a request with a valid (well-formed, verifying, TDX) requester quote,
\* a local quote with the same identity slice, a sealing secret S and report
\* data whose first 32 bytes are a valid key K_pub does not fail, and its
\* result is the sealed box, to K_pub, of sha256 over S followed directly by
\* mr_td, rt_mr0, rt_mr1, rt_mr2, rt_mr3 of the requester's report.
C5_EndToEnd ==
    /\ (Terminal /\ NothingWrong) => pc = "Done"
    /\ pc = "Done" =>
          /\ result = Some(Ok(
                [sealed_to |-> [pk |-> [i \in 1..PUBLICKEYBYTES |->
                                          RequesterBody.report_data[i]]],
                 plaintext |-> [sha256 |->
                     sealing_key.val \o RequesterBody.mr_td \o RequesterBody.rt_mr0
                     \o RequesterBody.rt_mr1 \o RequesterBody.rt_mr2
                     \o RequesterBody.rt_mr3]]))
          /\ sealing_key.val \in SealingSecrets

C5_Witness ==
    /\ pc = "Done"
    /\ ~devMode
    /\ ReturnedOk
    /\ RequesterQuote.report.kind = "TD15"
    /\ result.val.val.plaintext.sha256 = <<40, 41>> \o Reg(1) \o Reg(2) \o Reg(3) \o Reg(4) \o Reg(5)

\* ------------------------------------------------------------------ C6

\* C6: Verify is left out, and a mismatching identity slice let through,
\* only in a dev-mode build, whatever the request holds; a dev-mode request
\* writes the reduced-trust warning when it starts and again when it lets
\* the identity check pass; a default build returns ciphertext only after
\* the collateral fetch and verify succeeded and the identity slices matched.
C6_ReducedTrustOnlyByBuild ==
    /\ (HasRun("ParseRequesterQuote") /\ ~HasRun("Verify")) => devMode
    /\ (HasRun("CheckIdentityBinding") /\ ~SameIdentity
            /\ Succeeded("CheckIdentityBinding")) => devMode
    /\ (devMode /\ HasRun("Start")) =>
          /\ ~HasRun("Verify")
          /\ \E i \in 1..Len(log) :
                log[i] = [level |-> "warn", msg |-> "Development mode enabled"]
    /\ (devMode /\ HasRun("CheckIdentityBinding")) =>
          \E i \in 1..Len(log) :
              log[i] = [level |-> "warn",
                        msg |-> "Development mode: Skipping strict PPID verification"]
    /\ (~devMode /\ HasRun("Start")) => (HasRun("Verify") \/ pc = "Verify")
    /\ (~devMode /\ ReturnedOk) =>
          /\ CalledOk("get_collateral_from_pcs")
          /\ CalledOk("verify")
          /\ Succeeded("Verify")
          /\ SameIdentity

C6_Witness ==
    /\ devMode
    /\ pc = "Done"
    /\ ReturnedOk
    /\ ~SameIdentity
    /\ ~Called("verify")
    /\ Warned

\* ------------------------------------------------------------------ C7

\* C7: a request whose collateral fetch failed and a request whose proof
\* check failed return the same value, QuoteVerificationError without any
\* field, after the same log lines, and neither has run a stage after Verify
\* or made a platform call.
C7_OpaqueVerificationError ==
    /\ (CalledErr("get_collateral_from_pcs") \/ CalledErr("verify")) => FailedAt("Verify")
    /\ FailedAt("Verify") =>
          /\ CalledErr("get_collateral_from_pcs") \/ CalledErr("verify")
          /\ result = Some(Err([kind |-> "QuoteVerificationError"]))
          /\ pc = "Failed"
          /\ StagesRun = <<"Start", "Verify">>
          /\ log = <<[level |-> "info", msg |-> "Starting quote processing"],
                     [level |-> "info",
                      msg |-> "Production mode - performing full quote verification"]>>
          /\ ~Called("get_local_quote") /\ ~Called("get_sealing_key")
          /\ tdx_quote = None /\ sgx_quote = None /\ sealing_key = None
          /\ measurements = None /\ derived_key = None /\ public_key = None

C7_Witness ==
    /\ CalledOk("get_collateral_from_pcs")
    /\ CalledErr("verify")
    /\ pc = "Failed"
    /\ ReturnedKind("QuoteVerificationError")

\* ------------------------------------------------------------------ C8

\* the requester's quote with its report in the other TDX variant
OtherVariant ==
    [header |-> RequesterQuote.header,
     report |-> IF RequesterQuote.report.kind = "TD10"
                THEN [kind |-> "TD15", base |-> RequesterQuote.report]
                ELSE [RequesterQuote.report.base EXCEPT !.kind = "TD10"]]

\* C8: for a TD10 and for a TD15 report extract_measurements gives mr_td,
\* rt_mr0, rt_mr1, rt_mr2, rt_mr3 concatenated in that order, 5 registers
\* long, and gives the same bytes for the report of the other variant with
\* the same registers; for any other report it fails with QuoteParseError
\* and the request has no measurements.
C8_MeasurementSet ==
    HasRun("ExtractMeasurements") =>
        IF RequesterIsTdx
        THEN /\ Succeeded("ExtractMeasurements")
             /\ measurements =
                    Some(RequesterBody.mr_td \o RequesterBody.rt_mr0
                         \o RequesterBody.rt_mr1 \o RequesterBody.rt_mr2
                         \o RequesterBody.rt_mr3)
             /\ Len(measurements.val) = 5 * RegWidth
             /\ Len(measurements.val) % RegWidth = 0
             /\ extract_measurements(OtherVariant) = Ok(measurements.val)
        ELSE /\ FailedAt("ExtractMeasurements")
             /\ measurements = None
             /\ result = Some(Err([kind |-> "QuoteParseError", msg |-> "Not a TDX quote"]))

C8_Witness ==
    /\ Succeeded("ExtractMeasurements")
    /\ RequesterQuote.report.kind = "TD15"
    /\ measurements = Some(Reg(1) \o Reg(2) \o Reg(3) \o Reg(4) \o Reg(5))

\* ------------------------------------------------------------------ C9

\* extract_public_key on its own, over report data of every length
InitKeys ==
    /\ devMode = FALSE
    /\ tdx_quote_data = None
    /\ keyAccepted \in BOOLEAN
    /\ pc = "KeyInput"
    /\ trace = <<>>
    /\ calls = <<>>
    /\ log = <<>>
    /\ result = None
    /\ tdx_quote = None
    /\ sgx_quote_data = None
    /\ sgx_quote = None
    /\ sealing_key = None
    /\ measurements = None
    /\ derived_key = None
    /\ report_data \in {Some(rd) : rd \in KeyInputs}
    /\ public_key = None

ApplyExtractPublicKey ==
    /\ pc = "KeyInput"
    /\ LET res == extract_public_key(report_data.val)
       IN  /\ result' = Some(res)
           /\ public_key' = IF res.ok THEN Some(res.val) ELSE public_key
    /\ pc' = "KeyOutput"
    /\ UNCHANGED <<inputs, trace, calls, log, tdx_quote, sgx_quote_data, sgx_quote,
                   sealing_key, measurements, derived_key, report_data>>

NextKeys == ApplyExtractPublicKey

SpecKeys == InitKeys /\ [][NextKeys]_vars

\* C9: extract_public_key fails with PublicKeyError on report data shorter
\* than 32 bytes and on report data whose leading 32 bytes the key decoder
\* rejects; otherwise it succeeds with the key made of exactly the first 32
\* bytes, whatever follows them.
C9_PublicKeyExtraction ==
    pc = "KeyOutput" =>
        IF Len(report_data.val) < 32 \/ ~keyAccepted
        THEN /\ ReturnedKind("PublicKeyError")
             /\ public_key = None
        ELSE /\ result = Some(Ok([pk |-> [i \in 1..32 |-> report_data.val[i]]]))
             /\ public_key = Some(result.val.val)

C9_Witness ==
    /\ pc = "KeyOutput"
    /\ Len(report_data.val) = 32
    /\ keyAccepted
    /\ ReturnedOk

\* ----------------------------------------------------------------- C10

\* C10: in a default build get_sealing_key is called only after the
\* collateral fetch and verify succeeded, both quotes parsed and the
\* identity slices matched; a request that failed in Verify, in parsing
\* either quote, in get_local_quote or in the identity check has not
\* called it.
C10_SealingSecretLast ==
    /\ (~devMode /\ Called("get_sealing_key")) =>
          /\ CalledOk("get_collateral_from_pcs")
          /\ CalledOk("verify")
          /\ CalledOk("get_local_quote")
          /\ tdx_quote_data.wellFormed /\ tdx_quote.some
          /\ sgx_quote_data.val.wellFormed /\ sgx_quote.some
          /\ SameIdentity
          /\ Succeeded("CheckIdentityBinding")
    /\ (\/ FailedAt("Verify")
        \/ FailedAt("ParseRequesterQuote")
        \/ FailedAt("ParseLocalQuote")
        \/ FailedAt("CheckIdentityBinding")
        \/ ReturnedKind("QuoteVerificationError")
        \/ ReturnedKind("PPIDMismatch")
        \/ CalledErr("get_local_quote")) => ~Called("get_sealing_key")

C10_Witness ==
    /\ ~devMode
    /\ CalledOk("get_sealing_key")
    /\ SameIdentity
    /\ RequesterQuote.header.user_data[PPID_LEN + 1] # LocalQuote.header.user_data[PPID_LEN + 1]

====
